---- MODULE Spec2Model ----
(***************************************************************************)
(* A model of pl_report_missing_episodes_claude.py: the catalog resolver   *)
(* with its on-disk cache (get_tvdb_data), the per-show inventory builder  *)
(* and reconciler (process_show), and the library/show loops of main with  *)
(* the SIGINT flag and the workbook that is saved on the way out.          *)
(*                                                                         *)
(* Text is a sequence of one-character strings, so that Python's           *)
(* substring test, str.replace and str.join are computed, not assumed.     *)
(***************************************************************************)
EXTENDS Integers, Sequences, FiniteSets, TLC

\* ------------------------------------------------------------------ bounds
\* Longest season list a catalog series has.
MaxSeasons == 2
\* Most episodes the library server lists for one show.
MaxEpisodes == 2
\* Most backing files (media parts) of one listed episode.
MaxParts == 2
\* Most results a catalog search returns.
MaxResults == 2
\* Most show-type libraries of the server, and most shows of one library.
MaxLibs == 2
MaxShows == 2
\* The clock, in days, runs from 0 to MaxNow in steps of TickDays.
MaxNow == 21
TickDays == 7

\* ------------------------------------------------------- program constants
CACHE_EXPIRY_DAYS == 14

\* --------------------------------------------------------------------- text
\* Python: needle in hay
Contains(needle, hay) ==
    \E i \in 1..(Len(hay) - Len(needle) + 1) :
        SubSeq(hay, i, i + Len(needle) - 1) = needle

\* Python: s.replace(pat, ""), every occurrence, left to right
RECURSIVE Remove(_, _)
Remove(s, pat) ==
    IF Len(s) < Len(pat) THEN s
    ELSE IF SubSeq(s, 1, Len(pat)) = pat
         THEN Remove(SubSeq(s, Len(pat) + 1, Len(s)), pat)
         ELSE <<s[1]>> \o Remove(Tail(s), pat)

\* Python: sep.join(list)
RECURSIVE Join(_, _)
Join(sep, list) ==
    IF list = <<>> THEN <<>>
    ELSE IF Len(list) = 1 THEN list[1]
         ELSE list[1] \o sep \o Join(sep, Tail(list))

Newline == <<"\n">>
\* The literal "\\?\\" of line 262: backslash, question mark, backslash.
LongPathMark == <<"\\", "?", "\\">>
\* The working directory Path.absolute() resolves a relative path against.
Cwd == <<"/", "w">>

\* pathlib: Path(p).absolute() on a POSIX build
Absolute(p) ==
    IF p = <<>> THEN Cwd
    ELSE IF p[1] = "/" THEN p ELSE Cwd \o <<"/">> \o p

\* line 262: str(Path(media_part.file.replace("\\?\\", "")).absolute())
NormalizePath(file) == Absolute(Remove(file, LongPathMark))

NotFoundNeedle == <<"N","o","t"," ","f","o","u","n","d">>
NotFoundOnTvdb == <<"N","o","t"," ","f","o","u","n","d"," ","o","n"," ","T","V","D","B">>
SearchErrPrefix ==
    <<"T","V","D","B"," ","s","e","a","r","c","h"," ","e","r","r","o","r",":"," ">>
ApiErrPrefix == <<"T","V","D","B"," ","A","P","I"," ","e","r","r","o","r",":"," ">>
\* str(KeyError("type")) and the TypeError of indexing a str with a str
KeyErrorMsg == <<"'","t","y","p","e","'">>
TypeErrorMsg ==
    <<"s","t","r","i","n","g"," ","i","n","d","i","c","e","s"," ","m","u","s","t"," ",
      "b","e"," ","i","n","t","e","g","e","r","s">>
\* An OSError of open() or of the write behind json.dump
WriteErrMsg == <<"E","N","O","S","P","C">>

\* No exception / no error string (Python's None).
NoExc == <<>>

\* Messages a collaborator's exception may carry.
ExcMessages ==
    { <<"t","i","m","e","o","u","t">>,
      <<"N","o","t"," ","F","o","u","n","d">>,
      <<"4","0","4"," ","N","o","t"," ","f","o","u","n","d">> }

\* ------------------------------------------------------------- catalog data
\* A series-level season's "type" field, by its JSON shape.
TypeAbsent == [shape |-> "absent", val |-> ""]
TypeNull == [shape |-> "null", val |-> ""]
TypeStr(s) == [shape |-> "str", val |-> s]
TypeDict(s) == [shape |-> "dict", val |-> s]

\* line 182: season["type"] and season["type"]["type"] and
\*           season["type"]["type"] != "official"
\* "raise" is the KeyError of a missing key, or the TypeError of "str"["type"].
FetchSkip(t) ==
    CASE t.shape = "absent" -> "raise"
      [] t.shape = "null" -> "fetch"
      [] t.shape = "str" -> IF t.val = "" THEN "fetch" ELSE "raise"
      [] OTHER -> IF t.val \in {"null", "", "official"} THEN "fetch" ELSE "skip"

FetchSkipError(t) == IF t.shape = "absent" THEN KeyErrorMsg ELSE TypeErrorMsg

\* line 297: s.get("type") is None or s.get("type") == "official"
IsOfficial(t) ==
    \/ t.shape \in {"absent", "null"}
    \/ t.shape = "str" /\ t.val = "official"

NoData == [series |-> <<>>, seasons |-> <<>>, none |-> TRUE]

\* lines 181-192: the season loop of a fresh fetch. The result is the list of
\* season_extended records appended so far, or the exception that left the loop.
RECURSIVE FetchSeasons(_, _, _)
FetchSeasons(seasons, i, acc) ==
    IF i > Len(seasons) THEN [exc |-> NoExc, seasons |-> acc]
    ELSE LET s == seasons[i]
             d == FetchSkip(s.type)
         IN  CASE d = "raise" -> [exc |-> FetchSkipError(s.type), seasons |-> acc]
               [] d = "skip" -> FetchSeasons(seasons, i + 1, acc)
               [] OTHER ->
                    IF s.fetchFails
                    THEN FetchSeasons(seasons, i + 1, acc)
                    ELSE FetchSeasons(seasons, i + 1,
                             Append(acc, [number |-> s.number, episodes |-> s.episodes]))

\* What get_series_extended returns of the seasons: number and type.
SeriesSeasons(seasons) ==
    [i \in 1..Len(seasons) |-> [number |-> seasons[i].number, type |-> seasons[i].type]]

\* ------------------------------------------------------------------- cache
NoEntry == [state |-> "absent", mtime |-> 0, data |-> NoData]

IsCacheValidAnyAge(entry, now) == entry.state # "absent"
\* lines 63-71
IsCacheValid(entry, now) ==
    /\ entry.state # "absent"
    /\ entry.mtime > now - CACHE_EXPIRY_DAYS

\* lines 74-79
RECURSIVE ExtractTvdbId(_)
ExtractTvdbId(guids) ==
    IF guids = <<>> THEN 0
    ELSE IF guids[1].scheme = "tvdb" THEN guids[1].id ELSE ExtractTvdbId(Tail(guids))

\* lines 139-148: first result of the show's year, else the first result
RECURSIVE YearMatch(_, _)
YearMatch(results, year) ==
    IF results = <<>> THEN 0
    ELSE IF year # 0 /\ results[1].year = year THEN results[1].tvdb_id
         ELSE YearMatch(Tail(results), year)

BestMatch(results, year) ==
    IF YearMatch(results, year) # 0 THEN YearMatch(results, year) ELSE results[1].tvdb_id

\* lines 130-159: the identifier, or the error string
ResolveId(show, tvdb_id) ==
    IF tvdb_id # 0 THEN [id |-> tvdb_id, error |-> NoExc]
    ELSE IF show.search.exc # NoExc
         THEN [id |-> 0, error |-> SearchErrPrefix \o show.search.exc]
         ELSE IF show.search.results = <<>>
              THEN [id |-> 0, error |-> NotFoundOnTvdb]
              ELSE [id |-> BestMatch(show.search.results, show.year), error |-> NoExc]

\* lines 194-196: open(cache_file, "w") and json.dump. A failing open leaves
\* the file as it was; a failing dump leaves a truncated file of this moment.
WriteCache(cache, id, data, now, outcome) ==
    CASE outcome = "ok" ->
            [cache EXCEPT ![id] = [state |-> "ok", mtime |-> now, data |-> data]]
      [] outcome = "dump_fails" ->
            [cache EXCEPT ![id] = [state |-> "corrupt", mtime |-> now, data |-> NoData]]
      [] OTHER -> cache

\* lines 173-202: the fetch, once the cache gave nothing
FetchNew(show, id, cache, now) ==
    IF show.series.exc # NoExc
    THEN [data |-> NoData, error |-> ApiErrPrefix \o show.series.exc, cache |-> cache,
          fetched |-> TRUE, wrote |-> FALSE, id |-> id]
    ELSE LET f == FetchSeasons(show.series.seasons, 1, <<>>)
             data == [series |-> SeriesSeasons(show.series.seasons),
                      seasons |-> f.seasons, none |-> FALSE]
         IN  IF f.exc # NoExc
             THEN [data |-> NoData, error |-> ApiErrPrefix \o f.exc, cache |-> cache,
                   fetched |-> TRUE, wrote |-> FALSE, id |-> id]
             ELSE IF show.write = "ok"
                  THEN [data |-> data, error |-> NoExc,
                        cache |-> WriteCache(cache, id, data, now, show.write),
                        fetched |-> TRUE, wrote |-> TRUE, id |-> id]
                  ELSE [data |-> NoData, error |-> ApiErrPrefix \o WriteErrMsg,
                        cache |-> WriteCache(cache, id, data, now, show.write),
                        fetched |-> TRUE, wrote |-> show.write = "dump_fails", id |-> id]

\* lines 126-202. json.dump followed by json.load gives back the same
\* dict of lists, numbers, strings and nulls, so a readable entry is its data.
GetTvdbData(show, tvdb_id, cache, now) ==
    LET r == ResolveId(show, tvdb_id)
    IN  IF r.error # NoExc
        THEN [data |-> NoData, error |-> r.error, cache |-> cache,
              fetched |-> FALSE, wrote |-> FALSE, id |-> 0]
        ELSE IF IsCacheValid(cache[r.id], now) /\ cache[r.id].state = "ok"
             THEN [data |-> cache[r.id].data, error |-> NoExc, cache |-> cache,
                   fetched |-> FALSE, wrote |-> FALSE, id |-> r.id]
             ELSE FetchNew(show, r.id, cache, now)

\* ------------------------------------------------------------ process_show
\* The local inventory: plex_episodes and plex_episodes_count of lines 245-246
\* as one map from (season, episode number) to the stored episode's count,
\* combined_locations (when the attribute was set) and locations.
Key(ep) == <<ep.seasonNumber, ep.index>>

\* lines 262-286: one media part of one listed episode
AddPart(inv, ep, file) ==
    LET k == Key(ep)
        path == NormalizePath(file)
        hasLocations == ep.parts # <<>>
    IN  IF k \in DOMAIN inv
        THEN [inv EXCEPT ![k] =
                 [count |-> @.count + 1,
                  hasCombined |-> @.hasCombined \/ hasLocations,
                  combined |-> IF ~hasLocations THEN @.combined
                               ELSE IF @.hasCombined THEN @.combined \o <<path>>
                                    ELSE <<path>>,
                  locations |-> @.locations]]
        ELSE inv @@ (k :> [count |-> 1,
                           hasCombined |-> hasLocations,
                           combined |-> IF hasLocations THEN <<path>> ELSE <<>>,
                           locations |-> ep.parts])

\* lines 261-286: for media_part in episode.iterParts()
RECURSIVE AddParts(_, _, _)
AddParts(inv, ep, j) ==
    IF j > Len(ep.parts) THEN inv ELSE AddParts(AddPart(inv, ep, ep.parts[j]), ep, j + 1)

\* lines 248-290: the episode loop inside its one try block. An exception of
\* show.episodes() leaves the inventory empty; an exception while an episode's
\* files are read leaves the loop with what was recorded until then.
RECURSIVE BuildFrom(_, _, _)
BuildFrom(eps, i, inv) ==
    IF i > Len(eps) THEN inv
    ELSE IF eps[i].readFails THEN inv
         ELSE BuildFrom(eps, i + 1, AddParts(inv, eps[i], 1))

BuildInventory(show) ==
    IF show.episodesFail THEN <<>> ELSE BuildFrom(show.episodes, 1, <<>>)

\* lines 296-298
RECURSIVE OfficialCount(_)
OfficialCount(seasons) ==
    IF seasons = <<>> THEN 0
    ELSE (IF IsOfficial(seasons[1].type) THEN 1 ELSE 0) + OfficialCount(Tail(seasons))

\* lines 321-338: the file path(s) of a present episode
FilePathOf(e) ==
    IF e.hasCombined /\ e.combined # <<>> THEN Join(Newline, e.combined)
    ELSE IF e.locations # <<>> THEN Join(Newline, e.locations) ELSE <<>>

\* lines 312-353: the row of one canonical episode
RowFor(lib, show, numSeasons, season, episode_num, inv) ==
    LET k == <<season.number, episode_num>>
        present == k \in DOMAIN inv
    IN  [library |-> lib, title |-> show.title, numSeasons |-> numSeasons,
         season |-> season.number, numEpisodes |-> Len(season.episodes),
         episode |-> episode_num,
         missing |-> ~present,
         duplicate |-> present /\ inv[k].count > 1,
         filePath |-> IF present THEN FilePathOf(inv[k]) ELSE <<>>]

\* worksheet.write(row, ...): a cell table, written at the row given
SheetWrite(sheet, r, row) ==
    IF r \in DOMAIN sheet THEN [sheet EXCEPT ![r] = row] ELSE Append(sheet, row)

RECURSIVE EmitEpisodesOnlyMissing(_, _, _, _, _, _, _)
EmitEpisodesOnlyMissing(lib, show, numSeasons, season, j, inv, out) ==
    IF j > Len(season.episodes) THEN out
    ELSE IF <<season.number, season.episodes[j]>> \in DOMAIN inv
         THEN EmitEpisodesOnlyMissing(lib, show, numSeasons, season, j + 1, inv, out)
         ELSE EmitEpisodesOnlyMissing(lib, show, numSeasons, season, j + 1, inv,
                  [sheet |-> SheetWrite(out.sheet, out.row_index,
                                 RowFor(lib, show, numSeasons, season, season.episodes[j],
                                        inv)),
                   row_index |-> out.row_index + 1])
\* lines 312-355: for episode in episodes, with row_index += 1
RECURSIVE EmitEpisodes(_, _, _, _, _, _, _)
EmitEpisodes(lib, show, numSeasons, season, j, inv, out) ==
    IF j > Len(season.episodes) THEN out
    ELSE EmitEpisodes(lib, show, numSeasons, season, j + 1, inv,
             [sheet |-> SheetWrite(out.sheet, out.row_index,
                            RowFor(lib, show, numSeasons, season, season.episodes[j], inv)),
              row_index |-> out.row_index + 1])

\* lines 300-355: for season_data in tvdb_seasons
RECURSIVE EmitSeasons(_, _, _, _, _, _, _)
EmitSeasons(lib, show, numSeasons, seasons, i, inv, out) ==
    IF i > Len(seasons) THEN out
    ELSE IF seasons[i].episodes = <<>>
         THEN EmitSeasons(lib, show, numSeasons, seasons, i + 1, inv, out)
         ELSE EmitSeasons(lib, show, numSeasons, seasons, i + 1, inv,
                  EmitEpisodes(lib, show, numSeasons, seasons[i], 1, inv, out))

\* lines 292-357
Reconcile(lib, show, data, inv, sheet, row_index) ==
    EmitSeasons(lib, show, OfficialCount(data.series), data.seasons, 1, inv,
                [sheet |-> sheet, row_index |-> row_index])

ErrorRow(lib, show, error) ==
    [library |-> lib, title |-> show.title, year |-> show.year, error |-> error]

\* lines 205-357. The sheets are passed in and out; "raise" is an exception
\* that leaves process_show (reading the show's attributes, lines 207-215).
ProcessShow(show, lib, row_index, sheets, cache, now) ==
    IF show.attrFails
    THEN [kind |-> "raise", row_index |-> row_index, sheets |-> sheets, cache |-> cache,
          data |-> NoData, error |-> NoExc, fetched |-> FALSE, wrote |-> FALSE, id |-> 0]
    ELSE
    LET tvdb_id == IF show.guids # <<>> THEN ExtractTvdbId(show.guids) ELSE 0
        t == GetTvdbData(show, tvdb_id, cache, now)
    IN  IF t.error # NoExc
        THEN [kind |-> "return", row_index |-> row_index,
              sheets |-> IF Contains(NotFoundNeedle, t.error)
                         THEN [sheets EXCEPT !.not_found =
                                   SheetWrite(@, 1, ErrorRow(lib, show, t.error))]
                         ELSE [sheets EXCEPT !.error =
                                   SheetWrite(@, 1, ErrorRow(lib, show, t.error))],
              cache |-> t.cache, data |-> NoData, error |-> t.error,
              fetched |-> t.fetched, wrote |-> t.wrote, id |-> t.id]
        ELSE LET out == Reconcile(lib, show, t.data, BuildInventory(show),
                                  sheets.main, row_index)
             IN  [kind |-> "return", row_index |-> out.row_index,
                  sheets |-> [sheets EXCEPT !.main = out.sheet],
                  cache |-> t.cache, data |-> t.data, error |-> NoExc,
                  fetched |-> t.fetched, wrote |-> t.wrote, id |-> t.id]

\* -------------------------------------------------------------------- state
VARIABLES
    pc,          \* where main is: start, lib_loop, show_loop, in_show, lib_end, finally, done
    terminate,   \* line 37: the flag signal_handler sets
    libsLeft,    \* libraries of the for loop of line 393 not yet taken
    showsLeft,   \* shows of the for loop of line 404 not yet taken
    lib,         \* library.title of the library being processed
    call,        \* the call in progress or last made: its arguments and the world it saw
    ret,         \* what that call gave back
    row_index,   \* line 390: main's row_index
    sheets,      \* the rows of main_sheet, not_found_sheet and error_sheet below the header
    cache,       \* ./cache: tvdb_<id>.json by id
    now,         \* the wall clock, in days
    fileclosed,  \* wb.close() has written the workbook
    report,      \* the workbook file as written
    log          \* which of main's own messages were printed

vars == <<pc, terminate, libsLeft, showsLeft, lib, call, ret, row_index, sheets,
          cache, now, fileclosed, report, log>>

Ids == {1, 2}
EmptyCache == [i \in Ids |-> NoEntry]
EmptySheets == [main |-> <<>>, not_found |-> <<>>, error |-> <<>>]

SeqsUpTo(S, n) == UNION {[1..k -> S] : k \in 0..n}

\* ------------------------------------------------------------------- inputs
\* A show as the collaborators answer for it: the library server's attributes
\* and episode list, the catalog's answers, and how the cache write ends.
TvdbGuid(i) == [scheme |-> "tvdb", id |-> i]
ImdbGuid == [scheme |-> "imdb", id |-> 5]
Timeout == <<"t","i","m","e","o","u","t">>

PlainSeason(n, eps) ==
    [number |-> n, type |-> TypeDict("official"), episodes |-> eps, fetchFails |-> FALSE]
LocalEpisode(s, e, parts) ==
    [seasonNumber |-> s, index |-> e, parts |-> parts, readFails |-> FALSE]
UnreadableEpisode(s, e) ==
    [seasonNumber |-> s, index |-> e, parts |-> <<>>, readFails |-> TRUE]

LongPathA == <<"\\", "?", "\\", "/", "a">>
RelativeB == <<"b">>
RawPaths == {LongPathA, RelativeB}

BaseShow ==
    [title |-> "A", year |-> 2000, attrFails |-> FALSE,
     guids |-> <<TvdbGuid(1)>>,
     search |-> [exc |-> NoExc, results |-> <<>>],
     series |-> [exc |-> NoExc, seasons |-> <<PlainSeason(1, <<1, 2>>)>>],
     write |-> "ok",
     episodesFail |-> FALSE,
     episodes |-> <<LocalEpisode(1, 1, <<LongPathA>>)>>]

SeasonNumbers == {1, 2}
EpLists == {<<>>, <<1>>, <<1, 2>>, <<2, 1>>}
TypeValues ==
    {TypeAbsent, TypeNull, TypeStr("official"), TypeDict("official"), TypeDict("dvd"),
     TypeDict("null")}
WriteOutcomes == {"ok", "open_fails", "dump_fails"}

GuidLists == {<<>>, <<ImdbGuid>>, <<ImdbGuid, TvdbGuid(1)>>, <<TvdbGuid(2), TvdbGuid(1)>>}
SearchResults == [tvdb_id : Ids, year : {1999, 2000}]
SearchAnswers ==
    {[exc |-> m, results |-> <<>>] : m \in ExcMessages}
    \cup {[exc |-> NoExc, results |-> r] : r \in SeqsUpTo(SearchResults, MaxResults)}

\* Season lists of a fresh fetch: every type shape, with failing season fetches.
TypedSeasons ==
    [number : SeasonNumbers, type : TypeValues, episodes : {<<1>>}, fetchFails : BOOLEAN]
\* Season lists of a catalog: every episode list.
CatalogSeasons ==
    [number : SeasonNumbers, type : {TypeNull, TypeDict("official")}, episodes : EpLists,
     fetchFails : BOOLEAN]
SampleInventories ==
    { <<>>,
      <<LocalEpisode(1, 1, <<LongPathA>>), LocalEpisode(1, 1, <<RelativeB>>)>>,
      <<LocalEpisode(2, 2, <<RelativeB, LongPathA>>), LocalEpisode(3, 1, <<RelativeB>>)>> }
\* Listed episodes: every key with every list of files, and an unreadable one.
LocalKeys == {<<1, 1>>, <<1, 2>>, <<3, 1>>}
LocalEpisodes ==
    {LocalEpisode(k[1], k[2], parts) : k \in LocalKeys, parts \in SeqsUpTo(RawPaths, MaxParts)}
    \cup {UnreadableEpisode(k[1], k[2]) : k \in LocalKeys}
SampleCatalogs ==
    { <<PlainSeason(1, <<1, 2>>)>>,
      <<PlainSeason(2, <<1>>), PlainSeason(1, <<2, 1>>)>> }

\* The cache as a show may find it: the entry of id 1 absent, readable or
\* truncated, written at day 0 or at day 7, read at day CACHE_EXPIRY_DAYS.
CachedData ==
    [series |-> <<[number |-> 1, type |-> TypeNull]>>,
     seasons |-> <<[number |-> 1, episodes |-> <<1>>]>>, none |-> FALSE]
CacheEntries ==
    {NoEntry}
    \cup {[state |-> "ok", mtime |-> t, data |-> CachedData] : t \in {0, 7}}
    \cup {[state |-> "corrupt", mtime |-> t, data |-> NoData] : t \in {0, 7}}

NoCall == [show |-> BaseShow, lib |-> 0, row_index |-> 0, cache |-> EmptyCache, now |-> 0]
NoRet ==
    [kind |-> "none", row_index |-> 0, sheets |-> EmptySheets, cache |-> EmptyCache,
     data |-> NoData, error |-> NoExc, fetched |-> FALSE, wrote |-> FALSE, id |-> 0]

\* A row an earlier show left in the main sheet.
PriorRow ==
    [library |-> 0, title |-> "Z", numSeasons |-> 1, season |-> 1, numEpisodes |-> 1,
     episode |-> 1, missing |-> TRUE, duplicate |-> FALSE, filePath |-> <<>>]

\* ------------------------------------------------------------- process_show
\* line 410, from the call to the assignment of what it returns (or to the
\* except clause of lines 411-413)
ShowEnd ==
    /\ pc = "in_show"
    /\ ret' = ProcessShow(call.show, call.lib, call.row_index, sheets, cache, now)
    /\ sheets' = ret'.sheets
    /\ cache' = ret'.cache
    /\ row_index' = IF ret'.kind = "return" THEN ret'.row_index ELSE row_index
    /\ log' = IF ret'.kind = "raise" THEN log \cup {"Error (I)"} ELSE log
    /\ pc' = "show_loop"
    /\ UNCHANGED <<terminate, libsLeft, showsLeft, lib, call, now, fileclosed, report>>

\* The state in which process_show is called on `show`, the cache and the
\* clock being `c` and `t` and the main sheet holding the rows `prior`.
InitWith(show, c, t, prior) ==
    /\ pc = "in_show"
    /\ terminate = FALSE
    /\ libsLeft = 0
    /\ showsLeft = 0
    /\ lib = 1
    /\ call = [show |-> show, lib |-> 1, row_index |-> Len(prior) + 1, cache |-> c,
               now |-> t]
    /\ ret = NoRet
    /\ row_index = Len(prior) + 1
    /\ sheets = [EmptySheets EXCEPT !.main = prior]
    /\ cache = c
    /\ now = t
    /\ fileclosed = FALSE
    /\ report = EmptySheets
    /\ log = {}

\* One call of process_show on each show of five families: resolution by
\* search (every guid list, year and search answer); fresh fetches over every
\* type shape; every catalog against sample inventories; every inventory
\* against sample catalogs; and every cache entry with every end of the write.
InitShow ==
    \/ \E g \in GuidLists, y \in {0, 2000}, a \in SearchAnswers :
           InitWith([BaseShow EXCEPT !.guids = g, !.year = y, !.search = a],
                    EmptyCache, 0, <<>>)
    \/ \E k \in 0..MaxSeasons : \E ss \in [1..k -> TypedSeasons] :
           InitWith([BaseShow EXCEPT !.series = [exc |-> NoExc, seasons |-> ss]],
                    EmptyCache, 0, <<>>)
    \/ \E m \in ExcMessages :
           InitWith([BaseShow EXCEPT !.series = [exc |-> m, seasons |-> <<>>]],
                    EmptyCache, 0, <<>>)
    \/ \E k \in 0..MaxSeasons : \E ss \in [1..k -> CatalogSeasons] :
           \E inv \in SampleInventories :
               InitWith([BaseShow EXCEPT !.series = [exc |-> NoExc, seasons |-> ss],
                                         !.episodes = inv],
                        EmptyCache, 0, <<>>)
    \/ \E k \in 0..MaxEpisodes : \E inv \in [1..k -> LocalEpisodes] :
           \E ss \in SampleCatalogs :
               InitWith([BaseShow EXCEPT !.series = [exc |-> NoExc, seasons |-> ss],
                                         !.episodes = inv],
                        EmptyCache, 0, <<>>)
    \/ InitWith([BaseShow EXCEPT !.episodesFail = TRUE, !.episodes = <<>>],
                EmptyCache, 0, <<>>)
    \/ \E w \in WriteOutcomes, e \in CacheEntries, prior \in {<<>>, <<PriorRow>>} :
           InitWith([BaseShow EXCEPT !.write = w], [EmptyCache EXCEPT ![1] = e],
                    CACHE_EXPIRY_DAYS, prior)

SpecShow == InitShow /\ [][ShowEnd]_vars

\* --------------------------------------------------------------------- main
\* The shows a library of the run may hold: one that reconciles, one the
\* catalog search does not find, one whose series fetch fails, one whose
\* attributes cannot be read, and one resolved by a search to a cached series.
OkShow == BaseShow
NotFoundShow == [BaseShow EXCEPT !.title = "B", !.guids = <<>>]
RaisingShow == [BaseShow EXCEPT !.title = "D", !.attrFails = TRUE]
MainShows == {OkShow, NotFoundShow, RaisingShow}

Init ==
    /\ pc = "start"
    /\ terminate = FALSE
    /\ libsLeft = 0
    /\ showsLeft = 0
    /\ lib = 0
    /\ call = NoCall
    /\ ret = NoRet
    /\ row_index = 1
    /\ sheets = EmptySheets
    /\ cache = EmptyCache
    /\ now = 0
    /\ fileclosed = FALSE
    /\ report = EmptySheets
    /\ log = {}

\* lines 40-44
Interrupt ==
    /\ pc # "done"
    /\ terminate' = TRUE
    /\ log' = log \cup {"Interrupt received"}
    /\ UNCHANGED <<pc, libsLeft, showsLeft, lib, call, ret, row_index, sheets, cache, now,
                   fileclosed, report>>

\* lines 367-390: the two connections and the list of show-type libraries. A
\* failure goes to the except clause of line 418; no library is `wb.close();
\* return`, which the finally clause still follows.
Startup ==
    /\ pc = "start"
    /\ \E connects \in BOOLEAN, n \in 0..MaxLibs :
           IF ~connects
           THEN /\ log' = log \cup {"Error (O)"}
                /\ UNCHANGED <<libsLeft, fileclosed, report>>
           ELSE IF n = 0
                THEN /\ log' = log \cup {"No TV libraries"}
                     /\ fileclosed' = TRUE
                     /\ report' = sheets
                     /\ UNCHANGED libsLeft
                ELSE /\ libsLeft' = n
                     /\ UNCHANGED <<log, fileclosed, report>>
    /\ pc' = IF libsLeft' > 0 THEN "lib_loop" ELSE "finally"
    /\ row_index' = 1
    /\ UNCHANGED <<terminate, showsLeft, lib, call, ret, sheets, cache, now>>

\* lines 393-402: the next library and library.search()
LibraryBegin ==
    /\ pc = "lib_loop"
    /\ libsLeft > 0
    /\ libsLeft' = libsLeft - 1
    /\ lib' = lib + 1
    /\ \E lists \in BOOLEAN, n \in 0..MaxShows :
           IF lists
           THEN showsLeft' = n /\ pc' = "show_loop" /\ log' = log
           ELSE showsLeft' = 0 /\ pc' = "finally" /\ log' = log \cup {"Error (O)"}
    /\ UNCHANGED <<terminate, call, ret, row_index, sheets, cache, now, fileclosed, report>>

\* line 393: the library loop has run out
LibrariesDone ==
    /\ pc = "lib_loop"
    /\ libsLeft = 0
    /\ pc' = "finally"
    /\ UNCHANGED <<terminate, libsLeft, showsLeft, lib, call, ret, row_index, sheets,
                   cache, now, fileclosed, report, log>>

ShowBeginUnpolled ==
    /\ pc = "show_loop"
    /\ showsLeft > 0
    /\ showsLeft' = showsLeft - 1
    /\ \E s \in MainShows :
           call' = [show |-> s, lib |-> lib, row_index |-> row_index, cache |-> cache,
                    now |-> now]
    /\ pc' = "in_show"
    /\ UNCHANGED <<terminate, libsLeft, lib, ret, row_index, sheets, cache, now,
                   fileclosed, report, log>>
\* lines 404-410: the next show, the flag being clear, up to the call
ShowBegin ==
    /\ pc = "show_loop"
    /\ showsLeft > 0
    /\ ~terminate
    /\ showsLeft' = showsLeft - 1
    /\ \E s \in MainShows :
           call' = [show |-> s, lib |-> lib, row_index |-> row_index, cache |-> cache,
                    now |-> now]
    /\ pc' = "in_show"
    /\ UNCHANGED <<terminate, libsLeft, lib, ret, row_index, sheets, cache, now,
                   fileclosed, report, log>>

\* lines 405-407: the flag is set, break
ShowBreak ==
    /\ pc = "show_loop"
    /\ showsLeft > 0
    /\ terminate
    /\ pc' = "lib_end"
    /\ log' = log \cup {"Terminating early"}
    /\ UNCHANGED <<terminate, libsLeft, showsLeft, lib, call, ret, row_index, sheets,
                   cache, now, fileclosed, report>>

\* line 404: the show loop has run out
ShowsDone ==
    /\ pc = "show_loop"
    /\ showsLeft = 0
    /\ pc' = "lib_end"
    /\ UNCHANGED <<terminate, libsLeft, showsLeft, lib, call, ret, row_index, sheets,
                   cache, now, fileclosed, report, log>>

\* lines 415-416
LibraryEnd ==
    /\ pc = "lib_end"
    /\ pc' = IF terminate THEN "finally" ELSE "lib_loop"
    /\ UNCHANGED <<terminate, libsLeft, showsLeft, lib, call, ret, row_index, sheets,
                   cache, now, fileclosed, report, log>>

FinallyUnlessError ==
    /\ pc = "finally"
    /\ IF fileclosed \/ "Error (O)" \in log
       THEN UNCHANGED <<fileclosed, report>>
       ELSE fileclosed' = TRUE /\ report' = sheets
    /\ pc' = "done"
    /\ UNCHANGED <<terminate, libsLeft, showsLeft, lib, call, ret, row_index, sheets,
                   cache, now, log>>
\* lines 422-426: wb.close(), which only warns when the workbook is closed
Finally ==
    /\ pc = "finally"
    /\ IF fileclosed
       THEN UNCHANGED <<fileclosed, report>>
       ELSE fileclosed' = TRUE /\ report' = sheets
    /\ pc' = "done"
    /\ UNCHANGED <<terminate, libsLeft, showsLeft, lib, call, ret, row_index, sheets,
                   cache, now, log>>

MainNext ==
    \/ Startup
    \/ LibraryBegin
    \/ LibrariesDone
    \/ ShowBegin
    \/ ShowBreak
    \/ ShowsDone
    \/ ShowEnd
    \/ LibraryEnd
    \/ Finally

Next == MainNext \/ Interrupt

Spec == Init /\ [][Next]_vars

\* main is the process's one thread: it takes its next step whenever it has one.
LiveSpec == Spec /\ WF_vars(MainNext)

\* ------------------------------------------------- get_tvdb_data over time
SeriesA == [exc |-> NoExc, seasons |-> <<PlainSeason(1, <<1>>)>>]
SeriesB == [exc |-> NoExc, seasons |-> <<PlainSeason(1, <<1, 2>>)>>]
SeriesDown == [exc |-> Timeout, seasons |-> <<>>]
CacheCallShows ==
    {[BaseShow EXCEPT !.series = c, !.write = w,
                      !.search = [exc |-> NoExc,
                                  results |-> <<[tvdb_id |-> 2, year |-> 2000]>>]] :
        c \in {SeriesA, SeriesB, SeriesDown}, w \in WriteOutcomes}

InitCache ==
    /\ pc = "cache"
    /\ terminate = FALSE
    /\ libsLeft = 0
    /\ showsLeft = 0
    /\ lib = 0
    /\ call = NoCall
    /\ ret = NoRet
    /\ row_index = 1
    /\ sheets = EmptySheets
    /\ cache = EmptyCache
    /\ now = 0
    /\ fileclosed = FALSE
    /\ report = EmptySheets
    /\ log = {}

\* Time passes between two calls.
Tick ==
    /\ pc = "cache"
    /\ now + TickDays <= MaxNow
    /\ now' = now + TickDays
    /\ UNCHANGED <<pc, terminate, libsLeft, showsLeft, lib, call, ret, row_index, sheets,
                   cache, fileclosed, report, log>>

\* line 220: one call of get_tvdb_data, with an identifier or without
CacheCall ==
    /\ pc = "cache"
    /\ \E s \in CacheCallShows, i \in {0} \cup Ids :
           /\ call' = [show |-> s, lib |-> 0, row_index |-> 0, cache |-> cache,
                       now |-> now]
           /\ ret' = [kind |-> "return", row_index |-> 0, sheets |-> sheets]
                         @@ GetTvdbData(s, i, cache, now)
    /\ cache' = ret'.cache
    /\ UNCHANGED <<pc, terminate, libsLeft, showsLeft, lib, row_index, sheets, now,
                   fileclosed, report, log>>

SpecCache == InitCache /\ [][Tick \/ CacheCall]_vars

\* --------------------------------------------------- claims about one show
Returned == pc = "show_loop" /\ ret.kind = "return"
Resolved == Returned /\ ret.error = NoExc
ShowRowNumbers == call.row_index .. (ret.row_index - 1)

\* The canonical episodes of an aggregate, as (season number, episode number),
\* in catalog order.
RECURSIVE CanonicalEpisodes(_)
CanonicalEpisodes(seasons) ==
    IF seasons = <<>> THEN <<>>
    ELSE [j \in 1..Len(seasons[1].episodes) |->
              <<seasons[1].number, seasons[1].episodes[j]>>]
         \o CanonicalEpisodes(Tail(seasons))

RECURSIVE EpisodeSum(_)
EpisodeSum(seasons) ==
    IF seasons = <<>> THEN 0
    ELSE (IF seasons[1].episodes # <<>> THEN Len(seasons[1].episodes) ELSE 0)
         + EpisodeSum(Tail(seasons))

IsFetched(s) == FetchSkip(s.type) = "fetch"
CompleteFetch ==
    /\ ret.fetched
    /\ \A i \in DOMAIN call.show.series.seasons : ~call.show.series.seasons[i].fetchFails

\* The files the library server lists for a key, normalised, in the order listed.
RECURSIVE FilesAt(_, _)
FilesAt(eps, k) ==
    IF eps = <<>> THEN <<>>
    ELSE (IF Key(eps[1]) = k
          THEN [j \in 1..Len(eps[1].parts) |-> NormalizePath(eps[1].parts[j])]
          ELSE <<>>)
         \o FilesAt(Tail(eps), k)

\* C1: a resolved show adds one main-sheet row per canonical episode, in catalog
\* order: the returned row_index less the one passed in is the sum of the episode
\* counts of the aggregate's seasons with a non-empty list (of the catalog's
\* fetched seasons, when every season fetch succeeded), whatever the inventory.
C1_RowPerCanonicalEpisode ==
    Resolved =>
        LET eps == CanonicalEpisodes(ret.data.seasons)
        IN  /\ ret.row_index - call.row_index = EpisodeSum(ret.data.seasons)
            /\ Len(sheets.main) = ret.row_index - 1
            /\ \A k \in 1..Len(eps) :
                   /\ sheets.main[call.row_index + k - 1].season = eps[k][1]
                   /\ sheets.main[call.row_index + k - 1].episode = eps[k][2]
            /\ CompleteFetch =>
                   eps = CanonicalEpisodes(SelectSeq(call.show.series.seasons, IsFetched))

\* C1's case: rows were added for a show whose local inventory has files in a
\* season the catalog does not list, and lacks a canonical episode.
C1_Witness ==
    /\ Resolved
    /\ CompleteFetch
    /\ ret.row_index - call.row_index >= 3
    /\ \E i \in DOMAIN call.show.episodes :
           /\ call.show.episodes[i].parts # <<>>
           /\ \A j \in DOMAIN ret.data.seasons :
                  ret.data.seasons[j].number # call.show.episodes[i].seasonNumber
    /\ \E r \in ShowRowNumbers : sheets.main[r].missing

\* C2: the row of canonical episode (s, e) is missing, not duplicate and without
\* a path when no listed file maps to (s, e); otherwise it is not missing,
\* duplicate exactly when more than one file maps to (s, e), and its path is the
\* newline-join of those files in the order listed.
C2_RowMatchesBackingFiles ==
    Resolved =>
        \A r \in ShowRowNumbers :
            LET row == sheets.main[r]
                files == FilesAt(call.show.episodes, <<row.season, row.episode>>)
            IN  IF files = <<>>
                THEN row.missing /\ ~row.duplicate /\ row.filePath = <<>>
                ELSE /\ ~row.missing
                     /\ row.duplicate = (Len(files) > 1)
                     /\ row.filePath = Join(Newline, files)

NoReadFailure ==
    /\ ~call.show.episodesFail
    /\ \A i \in DOMAIN call.show.episodes : ~call.show.episodes[i].readFails

\* The statement of C2 for the shows whose files were all read.
RowMatchesBackingFilesWhenRead == NoReadFailure => C2_RowMatchesBackingFiles

\* C6: a show whose resolution failed gets no main-sheet row and one error row:
\* in the not-found sheet for a search without results, in the other-errors
\* sheet, and never in the not-found sheet, for any failure the catalog client
\* raised, whatever its message.
CatalogFailures ==
    {SearchErrPrefix \o m : m \in ExcMessages} \cup {ApiErrPrefix \o m : m \in ExcMessages}
C6_ErrorRowByKindOfFailure ==
    (Returned /\ ret.error # NoExc) =>
        /\ ret.row_index = call.row_index
        /\ Len(sheets.main) = call.row_index - 1
        /\ Len(sheets.not_found) + Len(sheets.error) = 1
        /\ ret.error = NotFoundOnTvdb => Len(sheets.not_found) = 1
        /\ ret.error \in CatalogFailures => Len(sheets.error) = 1 /\ sheets.not_found = <<>>

\* C8: when the series and season fetches succeed and only the cache write
\* fails, the fetched aggregate is returned without an error and no error row
\* is written.
C8_CacheWriteFailureNotFatal ==
    (/\ Returned
     /\ ret.fetched
     /\ call.show.series.exc = NoExc
     /\ FetchSeasons(call.show.series.seasons, 1, <<>>).exc = NoExc
     /\ call.show.write # "ok") =>
        /\ ret.error = NoExc
        /\ ret.data.seasons = FetchSeasons(call.show.series.seasons, 1, <<>>).seasons
        /\ sheets.not_found = <<>>
        /\ sheets.error = <<>>

\* C9: when the files of one listed episode cannot be read, every other listed
\* episode that has files, before or after it, is still in the inventory: its
\* canonical episode is not reported missing and its row carries its files.
C9_ReadFailureDropsOneEpisode ==
    (/\ Resolved
     /\ ~call.show.episodesFail
     /\ \E i \in DOMAIN call.show.episodes : call.show.episodes[i].readFails) =>
        \A i \in DOMAIN call.show.episodes :
            \A r \in ShowRowNumbers :
                LET ep == call.show.episodes[i]
                    row == sheets.main[r]
                IN  (ep.parts # <<>> /\ Key(ep) = <<row.season, row.episode>>) =>
                        /\ ~row.missing
                        /\ row.filePath =
                               Join(Newline, FilesAt(call.show.episodes, Key(ep)))

\* C10: the season count written in every row of a show is the number of
\* series-level seasons the fetch loop does not skip.
C10_SeasonCountMatchesFetchLoop ==
    Resolved =>
        \A r \in ShowRowNumbers :
            sheets.main[r].numSeasons =
                Cardinality({i \in DOMAIN ret.data.series :
                                 FetchSkip(ret.data.series[i].type) # "skip"})

\* ----------------------------------------------------- claims about the run
\* C3: the flag is polled between shows. Once it is set no call of process_show
\* starts; the show in progress ends as it would have, with all its rows; the
\* show loop and then the library loop are left; and the workbook is saved with
\* the rows the sheets then hold.
C3_InterruptPolledBetweenShows ==
    /\ [][/\ terminate => ~(pc # "in_show" /\ pc' = "in_show")
          /\ (pc = "in_show" /\ pc' # "in_show") =>
                 /\ pc' = "show_loop"
                 /\ (ret'.kind = "return" /\ ret'.error = NoExc) =>
                        /\ row_index' - row_index = EpisodeSum(ret'.data.seasons)
                        /\ Len(sheets'.main) = row_index' - 1
          /\ (terminate /\ pc = "show_loop" /\ pc' # pc) => pc' = "lib_end"
          /\ (terminate /\ pc = "lib_end" /\ pc' # pc) => pc' = "finally"
          /\ (pc # "done" /\ pc' = "done") => (fileclosed' /\ report' = sheets)]_vars
    /\ (terminate ~> (pc = "done" /\ fileclosed /\ report = sheets))

\* C3's case: the run ended on the flag with rows in the saved report, a show
\* of the library and a library of the server left untouched.
C3_Witness ==
    /\ pc = "done"
    /\ terminate
    /\ "Terminating early" \in log
    /\ showsLeft > 0
    /\ libsLeft > 0
    /\ fileclosed
    /\ report.main # <<>>

\* C4: every run of main ends, and ends with the workbook saved as the sheets
\* then are.
C4_AlwaysSaves ==
    /\ <>(pc = "done")
    /\ [](pc = "done" => (fileclosed /\ report = sheets))

\* C4's case: a show raised and was skipped, a later library could not be
\* listed, and the report with the rows of the shows before was saved.
C4_Witness ==
    /\ pc = "done"
    /\ fileclosed
    /\ {"Error (I)", "Error (O)"} \subseteq log
    /\ report.main # <<>>

\* C7: no write to a sheet lands on a row an earlier write used: every row of
\* the three sheets stays as it is.
C7_TablesAppendOnly ==
    [][\A t \in {"main", "not_found", "error"} :
           \A r \in DOMAIN sheets[t] :
               r \in DOMAIN sheets'[t] /\ sheets'[t][r] = sheets[t][r]]_vars

\* ------------------------------------------------- claims about the cache
Called == pc = "cache" /\ ret.kind = "return" /\ ret.id # 0
Before == call.cache[ret.id]
After == cache[ret.id]
Present == Before.state # "absent"
Expired == Present /\ call.now - Before.mtime >= CACHE_EXPIRY_DAYS
Within == Present /\ call.now - Before.mtime < CACHE_EXPIRY_DAYS
FreshData ==
    [series |-> SeriesSeasons(call.show.series.seasons),
     seasons |-> FetchSeasons(call.show.series.seasons, 1, <<>>).seasons, none |-> FALSE]
FreshEntry == [state |-> "ok", mtime |-> call.now, data |-> FreshData]

\* C5 as stated: a fetch and a write happen only without an entry or with an
\* expired one; an expired entry is replaced by a fetch and a write; an entry
\* within the window is returned without a fetch and stays as it is.
C5_FetchOnlyWhenAbsentOrExpired ==
    Called =>
        /\ (ret.fetched \/ ret.wrote) => (~Present \/ Expired)
        /\ Expired => (ret.fetched /\ ret.wrote /\ ret.data = FreshData /\ After = FreshEntry)
        /\ Within => (/\ ~ret.fetched
                      /\ ret.error = NoExc
                      /\ ret.data = Before.data
                      /\ After = Before)

\* C5 as amended: a fetch happens only without an entry, with an expired one or
\* with one that cannot be read; a write only after the series fetch succeeded;
\* an expired entry is never returned, and is replaced when fetch and write
\* succeed; a readable entry within the window is returned without a fetch and
\* stays as it is.
C5_FetchOnlyWhenAbsentExpiredOrUnreadable ==
    Called =>
        /\ ret.fetched => (~Present \/ Expired \/ Before.state = "corrupt")
        /\ ret.wrote => (ret.fetched /\ call.show.series.exc = NoExc)
        /\ ~ret.wrote => After = Before
        /\ Expired =>
               /\ ret.fetched
               /\ ret.error = NoExc => ret.data = FreshData
               /\ (call.show.series.exc = NoExc /\ call.show.write = "ok") =>
                      After = FreshEntry
        /\ (Within /\ Before.state = "ok") =>
               /\ ~ret.fetched
               /\ ~ret.wrote
               /\ ret.error = NoExc
               /\ ret.data = Before.data
               /\ After = Before

\* C5's case: a readable entry past its window was found, and a fetch put other
\* data of this moment in its place.
C5_Witness ==
    /\ Called
    /\ Expired
    /\ Before.state = "ok"
    /\ ret.fetched
    /\ After = FreshEntry
    /\ After.data # Before.data

====
